---- MODULE Spec2Model ----
(***************************************************************************)
(* A model of src/api-service.js: the APIService object (token,            *)
(* getAuthHeaders, request, uploadTestCases, logout), the browser          *)
(* facilities it drives (fetch, setTimeout/clearTimeout, AbortController,  *)
(* localStorage, console.error) and a caller that starts one call at a     *)
(* time.  One action is one turn of the JavaScript event loop: the code    *)
(* that runs from one resumption (a call, a settled await, a fired timer)  *)
(* to the next await, except that the upload loop is cut at the top of     *)
(* each iteration.                                                         *)
(*                                                                         *)
(* Encodings.  JavaScript null is the string NULL.  The two Chinese        *)
(* message texts of the source are written in ASCII (UnauthorizedMessage,  *)
(* TimeoutMessage).  An Error object is a record; its field `at` is the    *)
(* identity of the object: the attempt index during which it was created.  *)
(***************************************************************************)
EXTENDS Integers, Sequences, FiniteSets, TLC

\* ---------------------------------------------------------------- bounds
\* The largest `retries` option a caller passes in the model.
MaxRetries == 2

\* ------------------------------------------------------ program constants
DefaultTimeout == 300000
DefaultRetries == 0
RetryDelay == 2000

\* ------------------------------------------------------------ JS values
NULL == "<null>"

\* Truthiness of a string-or-null value: null and '' are falsy.
Truthy(v) == v # NULL /\ v # ""

\* `${v}` for a string-or-null value.
Str(v) == IF v = NULL THEN "null" ELSE v

\* The tokens the Credential Store may hold (login stores a non-empty token).
Tokens == {"tokA", "tokB"}

\* ------------------------------------------------------------- headers
\* getAuthHeaders without the test of line 16: Authorization is always sent.
getAuthHeadersMutant(tok) ==
  ("Content-Type" :> "application/json") @@ ("Authorization" :> ("Bearer " \o Str(tok)))

\* getAuthHeaders(): the header mapping for the current this.token.
getAuthHeaders(tok) ==
  IF Truthy(tok)
    THEN ("Content-Type" :> "application/json") @@ ("Authorization" :> ("Bearer " \o Str(tok)))
    ELSE ("Content-Type" :> "application/json")

\* The headers literal of the upload's fetch call.
uploadHeaders(tok) == ("Authorization" :> ("Bearer " \o Str(tok)))

\* ---------------------------------------------------------- JSON bodies
\* The response body texts the transport may deliver.
RawBodies ==
  { "<html>Bad Gateway</html>", "null", "{\"imported\":42}",
    "{\"error\":\"\"}", "{\"error\":\"X\"}" }

\* A body whose read never completes.
Stalled == "<stalled>"

NoData == [type |-> "undefined", hasError |-> FALSE, error |-> "", imported |-> 0]

\* response.json(): [ok |-> whether the text parses, data |-> the parsed value].
json(raw) ==
  CASE raw = "null" ->
         [ok |-> TRUE, data |-> [type |-> "null", hasError |-> FALSE, error |-> "", imported |-> 0]]
    [] raw = "{\"imported\":42}" ->
         [ok |-> TRUE, data |-> [type |-> "object", hasError |-> FALSE, error |-> "", imported |-> 42]]
    [] raw = "{\"error\":\"\"}" ->
         [ok |-> TRUE, data |-> [type |-> "object", hasError |-> TRUE, error |-> "", imported |-> 0]]
    [] raw = "{\"error\":\"X\"}" ->
         [ok |-> TRUE, data |-> [type |-> "object", hasError |-> TRUE, error |-> "X", imported |-> 0]]
    [] OTHER -> [ok |-> FALSE, data |-> NoData]

\* -------------------------------------------------------------- statuses
Statuses == {200, 401, 500}

\* response.ok without its upper limit.
ResponseOkMutant(status) == status >= 200

\* response.ok
ResponseOk(status) == status >= 200 /\ status <= 299

\* ---------------------------------------------------------------- errors
NoError == [name |-> "none", message |-> "", code |-> "", status |-> 0, at |-> 0]

\* new Error(message), created during attempt `at`.
Err(name, message, at) ==
  [name |-> name, message |-> message, code |-> "", status |-> 0, at |-> at]

\* The text of line 35 ('认证失败，请重新登录').
UnauthorizedMessage == "Authentication failed, please log in again"

\* The error of lines 35-37.
UnauthorizedError ==
  [name |-> "Error", message |-> UnauthorizedMessage, code |-> "UNAUTHORIZED",
   status |-> 401, at |-> 0]

\* What fetch rejects with when the network fails.
NetworkError(at) == Err("TypeError", "Failed to fetch", at)

\* What fetch rejects with when its signal is aborted.
AbortError(at) == Err("AbortError", "The user aborted a request.", at)

\* What response.json() rejects with on a text that is not JSON.
ParseError(at) == Err("SyntaxError", "Unexpected token < in JSON", at)

\* What reading data.error raises when data is null.
NullDataError(at) == Err("TypeError", "Cannot read properties of null (reading 'error')", at)

\* What a failing onProgress callback raises.
CallbackError(at) == Err("Error", "onProgress failed", at)

\* Line 40 without data.error: the message is always the status text.
NotOkErrorMutant(data, status, at) == Err("Error", "HTTP " \o ToString(status), at)

\* new Error(data.error || `HTTP ${response.status}`), lines 40 and 196.
NotOkError(data, status, at) ==
  IF data.type = "null"
    THEN NullDataError(at)
    ELSE IF data.hasError /\ Truthy(data.error)
           THEN Err("Error", data.error, at)
           ELSE Err("Error", "HTTP " \o ToString(status), at)

\* `${timeout/1000}`: the decimal text of ms/1000.
SecondsStr(ms) ==
  LET whole == ms \div 1000
      frac  == ms % 1000
      d1 == frac \div 100
      d2 == (frac \div 10) % 10
      d3 == frac % 10
  IN  IF frac = 0 THEN ToString(whole)
      ELSE IF d3 # 0 THEN ToString(whole) \o "." \o ToString(d1) \o ToString(d2) \o ToString(d3)
      ELSE IF d2 # 0 THEN ToString(whole) \o "." \o ToString(d1) \o ToString(d2)
      ELSE ToString(whole) \o "." \o ToString(d1)

\* The text of line 205 ('上传超时（超过${timeout/1000}秒），请检查网络或减少用例数量').
TimeoutMessage(ms) ==
  "Upload timed out (over " \o SecondsStr(ms) \o " s), check the network or reduce the number of cases"

\* Line 204 never recognising an abort.
IsAbortErrorMutant(e) == FALSE

\* fetchError.name === 'AbortError', line 204.
IsAbortError(e) == e.name = "AbortError"

\* The inner catch, lines 203-208: the error the attempt throws for fetchError.
AttemptError(fetchError, ms, at) ==
  IF IsAbortError(fetchError) THEN Err("Error", TimeoutMessage(ms), at) ELSE fetchError

\* ------------------------------------------------------------- options
\* An options argument: a record holding the fields the caller passed.
EmptyOptions == [k \in {} |-> 0]

Timeouts == {1000, 1500}

\* The options arguments callers pass in the model.
UploadOptions ==
  {EmptyOptions}
    \cup {[timeout |-> t] : t \in Timeouts}
    \cup {[retries |-> r] : r \in 0..MaxRetries}
    \cup {[timeout |-> t, retries |-> r, onProgress |-> "cb"] : t \in Timeouts, r \in 0..MaxRetries}

\* The destructuring defaults of lines 152-156.
OptTimeout(o) == IF "timeout" \in DOMAIN o THEN o.timeout ELSE DefaultTimeout

\* Line 154 with a default of one retry.
OptRetriesMutant(o) == IF "retries" \in DOMAIN o THEN o.retries ELSE 1

OptRetries(o) == IF "retries" \in DOMAIN o THEN o.retries ELSE DefaultRetries

OptOnProgress(o) == IF "onProgress" \in DOMAIN o THEN o.onProgress ELSE NULL

\* ------------------------------------------------------------ transport
NoNet == [kind |-> "none", status |-> 0, raw |-> "", errName |-> ""]

\* What the transport does with one call: never settle, reject, or resolve
\* with a response (whose body read may stall).
Outcomes ==
  {[kind |-> "hang", status |-> 0, raw |-> "", errName |-> ""]}
    \cup {[kind |-> "reject", status |-> 0, raw |-> "", errName |-> n] : n \in {"TypeError", "AbortError"}}
    \cup {[kind |-> "response", status |-> s, raw |-> b, errName |-> ""] :
            s \in Statuses, b \in RawBodies \cup {Stalled}}

\* The error a rejecting transport call rejects with.
RejectError(n, at) == IF n.errName = "AbortError" THEN AbortError(at) ELSE NetworkError(at)

\* -------------------------------------------------------------- results
NoResult == [tag |-> "none", data |-> NoData, err |-> NoError]
Return(data) == [tag |-> "return", data |-> data, err |-> NoError]
Throw(err) == [tag |-> "throw", data |-> NoData, err |-> err]

\* request, lines 30-43: what the try block does with a response.
RequestSettle(status, raw) ==
  LET parsed == json(raw)
  IN  IF ~parsed.ok THEN Throw(ParseError(0))
      ELSE IF ~ResponseOk(status)
             THEN IF status = 401 THEN Throw(UnauthorizedError)
                  ELSE Throw(NotOkError(parsed.data, status, 0))
      ELSE Return(parsed.data)

\* The inner try treating a 401 as request does.
UploadSettleMutant(status, raw, at) ==
  LET parsed == json(raw)
  IN  IF ~parsed.ok THEN Throw(ParseError(at))
      ELSE IF ~ResponseOk(status)
             THEN IF status = 401 THEN Throw(UnauthorizedError)
                  ELSE Throw(NotOkError(parsed.data, status, at))
      ELSE Return(parsed.data)

\* uploadTestCases, lines 193-199: what the inner try does with a response.
UploadSettle(status, raw, at) ==
  LET parsed == json(raw)
  IN  IF ~parsed.ok THEN Throw(ParseError(at))
      ELSE IF ~ResponseOk(status) THEN Throw(NotOkError(parsed.data, status, at))
      ELSE Return(parsed.data)

\* ---------------------------------------------------------------- timers
\* Lines 191 and 201 missing: the timer is left pending.
ClearTimeoutMutant(ts, id) == ts

\* clearTimeout(timeoutId): the timer table without the attempt's timer.
ClearTimeout(ts, id) == {t \in ts : t.id # id}

\* Line 170 counting attempts from the next one.
RetryEventMutant(k, total) == [ev |-> "progress", attempt |-> k + 1, total |-> total, ms |-> 0]

\* The event onProgress receives, line 170.
RetryEvent(k, total) == [ev |-> "progress", attempt |-> k, total |-> total, ms |-> 0]

DelayEvent(k) == [ev |-> "delay", attempt |-> k, total |-> 0, ms |-> RetryDelay]
ArmEvent(k, ms) == [ev |-> "arm", attempt |-> k, total |-> 0, ms |-> ms]
FetchEvent(k) == [ev |-> "fetch", attempt |-> k, total |-> 0, ms |-> 0]

\* ----------------------------------------------------------------- state
VARIABLES
  localStorage,   \* the Credential Store: [token, user]
  location,       \* window.location.href
  token,          \* this.token
  op,             \* the call in progress: "none", "request", "upload"
  pc,             \* its position: idle, loop, delay, fetch, json, succeeded, failed
  options,        \* the options argument of the upload
  attempt,        \* the loop variable of line 165
  lastError,      \* line 162
  timers,         \* the pending timeout timers: [id, ms]
  aborted,        \* the AbortControllers that have been aborted
  inflight,       \* the attempts whose transport call has not settled
  controller,     \* the AbortController of the current iteration
  net,            \* what the transport does with the call in flight
  sentHeaders,    \* the headers of the latest transport call
  events,         \* the call's notifications, delays, armed timers and transport calls
  result,         \* what the call returned or raised to its caller
  consoleErrors   \* the arguments of the call's console.error calls

vars ==
  <<localStorage, location, token, op, pc, options, attempt, lastError, timers,
    aborted, inflight, controller, net, sentHeaders, events, result, consoleErrors>>

credentialVars == <<localStorage, location, token>>

timeout == OptTimeout(options)
retries == OptRetries(options)
onProgress == OptOnProgress(options)

NoHeaders == [k \in {} |-> ""]

\* No call is in progress.
Quiet == pc \in {"idle", "succeeded", "failed"}

\* No controller has been created.
NoController == -1

\* A controller that is created once and shared by every attempt.
ControllerOfMutant(k) == 0

\* new AbortController(), line 177: each iteration creates its own.
ControllerOf(k) == k

\* The state a call starts from.
FreshCall(o) ==
  /\ options' = o
  /\ controller' = NoController
  /\ attempt' = 0
  /\ lastError' = NoError
  /\ timers' = {}
  /\ aborted' = {}
  /\ result' = NoResult
  /\ consoleErrors' = {}

\* constructor, lines 6-9, and the singleton of line 348.
Init ==
  /\ localStorage \in
       {[token |-> NULL, user |-> NULL]} \cup {[token |-> t, user |-> "admin"] : t \in Tokens}
  /\ location = "app"
  /\ token = localStorage.token
  /\ op = "none"
  /\ pc = "idle"
  /\ options = EmptyOptions
  /\ attempt = 0
  /\ lastError = NoError
  /\ timers = {}
  /\ aborted = {}
  /\ inflight = {}
  /\ controller = NoController
  /\ net = NoNet
  /\ sentHeaders = NoHeaders
  /\ events = <<>>
  /\ result = NoResult
  /\ consoleErrors = {}

\* ------------------------------------------------------ credential store
\* The login page stores a token (outside this file); this.token is not told.
Login ==
  /\ \E t \in Tokens : localStorage' = [token |-> t, user |-> "admin"]
  /\ UNCHANGED <<location, token, op, pc, options, attempt, lastError, timers, aborted,
                 inflight, controller, net, sentHeaders, events, result, consoleErrors>>

\* A page load while no call is in progress: new APIService(), lines 6-9 and 348.
PageLoad ==
  /\ Quiet
  /\ location' = "app"
  /\ token' = localStorage.token
  /\ op' = "none"
  /\ pc' = "idle"
  /\ FreshCall(EmptyOptions)
  /\ inflight' = {}
  /\ net' = NoNet
  /\ sentHeaders' = NoHeaders
  /\ events' = <<>>
  /\ UNCHANGED localStorage

\* logout(), lines 339-344.
logout ==
  /\ localStorage' = [token |-> NULL, user |-> NULL]
  /\ token' = NULL
  /\ location' = "index.html"
  /\ UNCHANGED <<op, pc, options, attempt, lastError, timers, aborted, inflight,
                 controller, net, sentHeaders, events, result, consoleErrors>>

\* --------------------------------------------------------------- request
\* request, lines 23-28: the call up to `await fetch(...)`.
RequestStart ==
  /\ Quiet
  /\ op' = "request"
  /\ pc' = "fetch"
  /\ FreshCall(EmptyOptions)
  /\ inflight' = {0}
  /\ net' \in Outcomes
  /\ sentHeaders' = getAuthHeaders(token)
  /\ events' = <<FetchEvent(0)>>
  /\ UNCHANGED credentialVars

\* A catch block that rethrows without logging.
RequestRaiseSilent(err) ==
  /\ result' = Throw(err)
  /\ pc' = "failed"
  /\ UNCHANGED <<credentialVars, consoleErrors>>

\* A catch block that drops the token on a 401.
RequestRaiseMutant(err) ==
  /\ consoleErrors' = consoleErrors \cup {err}
  /\ result' = Throw(err)
  /\ pc' = "failed"
  /\ token' = IF err.code = "UNAUTHORIZED" THEN NULL ELSE token
  /\ UNCHANGED <<localStorage, location>>

\* request, lines 44-47: the catch block logs the error and rethrows it.
RequestRaise(err) ==
  /\ consoleErrors' = consoleErrors \cup {err}
  /\ result' = Throw(err)
  /\ pc' = "failed"
  /\ UNCHANGED credentialVars

\* request, line 43.
RequestReturn(data) ==
  /\ result' = Return(data)
  /\ pc' = "succeeded"
  /\ UNCHANGED <<credentialVars, consoleErrors>>

\* The transport call of a request settles: line 25 resumes.
RequestFetchSettle ==
  /\ op = "request" /\ pc = "fetch"
  /\ net.kind \in {"reject", "response"}
  /\ inflight' = {}
  /\ IF net.kind = "reject"
       THEN RequestRaise(RejectError(net, 0))
       ELSE /\ pc' = "json"
            /\ UNCHANGED <<credentialVars, result, consoleErrors>>
  /\ UNCHANGED <<op, options, attempt, lastError, timers, aborted, controller, net,
                 sentHeaders, events>>

\* The body read of a request settles: lines 30-43.
RequestJsonSettle ==
  /\ op = "request" /\ pc = "json"
  /\ net.raw # Stalled
  /\ LET r == RequestSettle(net.status, net.raw)
     IN  IF r.tag = "throw" THEN RequestRaise(r.err) ELSE RequestReturn(r.data)
  /\ UNCHANGED <<op, options, attempt, lastError, timers, aborted, inflight, controller,
                 net, sentHeaders, events>>

\* ---------------------------------------------------------------- upload
\* uploadTestCases, lines 151-165: the call up to the first loop iteration.
UploadStart ==
  /\ Quiet
  /\ \E o \in UploadOptions : FreshCall(o)
  /\ op' = "upload"
  /\ pc' = "loop"
  /\ inflight' = {}
  /\ net' = NoNet
  /\ sentHeaders' = NoHeaders
  /\ events' = <<>>
  /\ UNCHANGED credentialVars

\* Lines 177-189: a controller and its timer are created, the transport call is issued.
ArmAndFetch ==
  /\ controller' = ControllerOf(attempt)
  /\ timers' = timers \cup {[id |-> attempt, ms |-> timeout]}
  /\ inflight' = inflight \cup {attempt}
  /\ net' \in Outcomes
  /\ sentHeaders' = uploadHeaders(token)
  /\ events' = events \o <<ArmEvent(attempt, timeout), FetchEvent(attempt)>>
  /\ pc' = "fetch"

\* Lines 210-222: the outer catch retries or gives up.
UploadCatch(error) ==
  /\ lastError' = error
  /\ IF attempt < retries
       THEN /\ attempt' = attempt + 1
            /\ pc' = "loop"
            /\ UNCHANGED <<result, consoleErrors>>
       ELSE /\ consoleErrors' = consoleErrors \cup {error}
            /\ result' = Throw(error)
            /\ pc' = "failed"
            /\ UNCHANGED attempt

\* The first iteration, attempt 0: lines 166-189.
UploadFirstAttempt ==
  /\ op = "upload" /\ pc = "loop" /\ attempt = 0
  /\ ArmAndFetch
  /\ UNCHANGED <<credentialVars, op, options, attempt, lastError, aborted, result,
                 consoleErrors>>

\* A retry iteration, lines 167-173: onProgress, when given, is notified and
\* returns; the inter-attempt delay starts.
UploadRetry ==
  /\ op = "upload" /\ pc = "loop" /\ attempt > 0
  /\ events' = events \o
       (IF Truthy(onProgress) THEN <<RetryEvent(attempt, retries)>> ELSE <<>>)
         \o <<DelayEvent(attempt)>>
  /\ pc' = "delay"
  /\ UNCHANGED <<credentialVars, op, options, attempt, lastError, timers, aborted,
                 inflight, controller, net, sentHeaders, result, consoleErrors>>

\* A retry iteration whose onProgress call raises: lines 170 and 210-222.
UploadRetryCallbackThrows ==
  /\ op = "upload" /\ pc = "loop" /\ attempt > 0
  /\ Truthy(onProgress)
  /\ events' = events \o <<RetryEvent(attempt, retries)>>
  /\ UploadCatch(CallbackError(attempt))
  /\ UNCHANGED <<credentialVars, op, options, timers, aborted, inflight, controller, net,
                 sentHeaders>>

\* The inter-attempt delay of line 173 elapses: lines 177-189.
DelayElapsed ==
  /\ op = "upload" /\ pc = "delay"
  /\ ArmAndFetch
  /\ UNCHANGED <<credentialVars, op, options, attempt, lastError, aborted, result,
                 consoleErrors>>

\* A timeout timer fires: the callback of line 178 aborts its controller.
TimerFire ==
  /\ \E t \in timers :
       /\ timers' = timers \ {t}
       /\ aborted' = aborted \cup {ControllerOf(t.id)}
  /\ UNCHANGED <<credentialVars, op, pc, options, attempt, lastError, inflight, controller,
                 net, sentHeaders, events, result, consoleErrors>>

\* The transport call of an attempt settles: it rejects with an AbortError once
\* its signal is aborted, and otherwise as the transport decides.  Lines 191
\* and 200-209.
UploadFetchSettle ==
  /\ op = "upload" /\ pc = "fetch"
  /\ controller \in aborted \/ net.kind \in {"reject", "response"}
  /\ inflight' = inflight \ {attempt}
  /\ timers' = ClearTimeout(timers, attempt)
  /\ IF controller \in aborted
       THEN UploadCatch(AttemptError(AbortError(attempt), timeout, attempt))
       ELSE IF net.kind = "reject"
              THEN UploadCatch(AttemptError(RejectError(net, attempt), timeout, attempt))
              ELSE /\ pc' = "json"
                   /\ UNCHANGED <<attempt, lastError, result, consoleErrors>>
  /\ UNCHANGED <<credentialVars, op, options, aborted, controller, net, sentHeaders, events>>

\* The body read of an attempt settles: lines 193-209.
UploadJsonSettle ==
  /\ op = "upload" /\ pc = "json"
  /\ controller \in aborted \/ net.raw # Stalled
  /\ LET r == IF controller \in aborted
                THEN Throw(AbortError(attempt))
                ELSE UploadSettle(net.status, net.raw, attempt)
     IN  IF r.tag = "throw"
           THEN /\ timers' = ClearTimeout(timers, attempt)
                /\ UploadCatch(AttemptError(r.err, timeout, attempt))
           ELSE /\ result' = Return(r.data)
                /\ pc' = "succeeded"
                /\ UNCHANGED <<attempt, lastError, timers, consoleErrors>>
  /\ UNCHANGED <<credentialVars, op, options, aborted, inflight, controller, net,
                 sentHeaders, events>>

\* --------------------------------------------------------- specification
Next ==
  \/ Login
  \/ PageLoad
  \/ logout
  \/ RequestStart
  \/ RequestFetchSettle
  \/ RequestJsonSettle
  \/ UploadStart
  \/ UploadFirstAttempt
  \/ UploadRetry
  \/ UploadRetryCallbackThrows
  \/ DelayElapsed
  \/ TimerFire
  \/ UploadFetchSettle
  \/ UploadJsonSettle

Spec == Init /\ [][Next]_vars

\* The event loop runs every enabled turn of a call; a transport call that is
\* not hanging settles, an armed timer fires unless cleared, the delay elapses.
Fairness ==
  /\ WF_vars(RequestFetchSettle)
  /\ WF_vars(RequestJsonSettle)
  /\ WF_vars(UploadFirstAttempt)
  /\ WF_vars(UploadRetry \/ UploadRetryCallbackThrows)
  /\ WF_vars(DelayElapsed)
  /\ WF_vars(TimerFire)
  /\ WF_vars(UploadFetchSettle)
  /\ WF_vars(UploadJsonSettle)

FairSpec == Spec /\ Fairness

\* ---------------------------------------------------------------- claims
\* The transport calls the call in progress has issued.
FetchEvents == SelectSeq(events, LAMBDA e : e.ev = "fetch")

\* The notifications onProgress has received.
ProgressEvents == SelectSeq(events, LAMBDA e : e.ev = "progress")

DelayEvents == SelectSeq(events, LAMBDA e : e.ev = "delay")

\* C1: with maxRetries = N and a transport whose every call fails, an upload
\* issues exactly N+1 transport calls and then raises the error that attempt N
\* produced.
C1_ExactlyNPlusOneCalls ==
  (op = "upload" /\ pc = "failed") =>
    /\ Len(FetchEvents) = retries + 1
    /\ result.tag = "throw"
    /\ result.err.at = retries

\* C2: when attempts 0..k-1 fail and attempt k succeeds with body B, the upload
\* returns B, its last transport call is that of attempt k, and onProgress (when
\* given) has received exactly the retrying events 1..k with total = maxRetries,
\* in order, and none for attempt 0.
C2_SuccessAfterRetries ==
  (op = "upload" /\ pc = "succeeded") =>
    /\ attempt <= retries
    /\ net.kind = "response"
    /\ result = Return(json(net.raw).data)
    /\ inflight = {}
    /\ events # <<>>
    /\ events[Len(events)] = [ev |-> "fetch", attempt |-> attempt, total |-> 0, ms |-> 0]
    /\ Len(ProgressEvents) = (IF onProgress = "cb" THEN attempt ELSE 0)
    /\ \A i \in 1..Len(ProgressEvents) :
         ProgressEvents[i] = [ev |-> "progress", attempt |-> i, total |-> retries, ms |-> 0]

C2_Witness ==
  /\ op = "upload" /\ pc = "succeeded"
  /\ retries = 2 /\ attempt = 2 /\ onProgress = "cb"
  /\ Len(ProgressEvents) = 2
  /\ result.data.imported = 42

\* C3: a request that gets a response with status 401 raises the Unauthorized
\* error (code UNAUTHORIZED, status 401, the fixed message), whatever the body.
C3_UnauthorizedWhateverTheBody ==
  (op = "request" /\ pc = "failed" /\ net.kind = "response" /\ net.status = 401) =>
    /\ result.tag = "throw"
    /\ result.err.code = "UNAUTHORIZED"
    /\ result.err.status = 401
    /\ result.err.message = UnauthorizedMessage

\* C4: an upload with maxRetries = 0 whose transport call never settles ends in
\* Failed with the Timeout error stating timeoutMs/1000 seconds, the call
\* aborted, and an ended upload has no timeout timer pending.
C4_TimeoutEndsHangingUpload ==
  /\ (op = "upload" /\ pc = "fetch" /\ retries = 0 /\ net.kind = "hang")
       ~> (/\ op = "upload" /\ pc = "failed" /\ net.kind = "hang"
           /\ 0 \in aborted
           /\ inflight = {}
           /\ result.tag = "throw"
           /\ result.err.name = "Error"
           /\ result.err.message = TimeoutMessage(timeout)
           /\ timers = {})
  /\ [](op = "upload" /\ pc = "failed" => timers = {})

C4_Witness ==
  /\ op = "upload" /\ pc = "failed" /\ retries = 0 /\ net.kind = "hang"
  /\ options = [timeout |-> 1500]
  /\ result.err.message =
       "Upload timed out (over 1.5 s), check the network or reduce the number of cases"
  /\ timers = {}

\* The attempt of the latest transport call of the upload in progress.
LastFetchAttempt == FetchEvents[Len(FetchEvents)].attempt

\* A request has ended on a parsed response that is neither ok nor a 401.
RequestFailedOnResponse ==
  /\ op = "request" /\ pc = "failed"
  /\ net.kind = "response" /\ json(net.raw).ok
  /\ ~(net.status \in 200..299) /\ net.status # 401

\* The latest attempt of an upload has failed on a parsed not-ok response:
\* lastError is the error that attempt raised.
UploadAttemptFailedOnResponse ==
  /\ op = "upload" /\ pc \in {"loop", "delay", "failed"}
  /\ FetchEvents # <<>>
  /\ lastError.at = LastFetchAttempt
  /\ LastFetchAttempt \notin aborted
  /\ net.kind = "response" /\ json(net.raw).ok
  /\ ~(net.status \in 200..299)

RequestEndedOn2xx ==
  /\ op = "request" /\ pc \in {"succeeded", "failed"}
  /\ net.kind = "response" /\ net.status \in 200..299

\* request returns a value only for a 2xx response.
ReturnsOnlyOn2xx ==
  (op = "request" /\ result.tag = "return") =>
    (pc = "succeeded" /\ net.kind = "response" /\ net.status \in 200..299)

\* C6 as stated: a request whose transport call completes with a 2xx status
\* returns the parsed body and raises nothing; request returns no value on
\* another status or on a transport failure.
C6_ReturnsBodyOn2xx ==
  /\ RequestEndedOn2xx => (result = Return(json(net.raw).data) /\ consoleErrors = {})
  /\ ReturnsOnlyOn2xx

\* C6 amended: a request whose transport call completes with a 2xx status and a
\* body that parses as JSON returns the parsed body and raises nothing; with a
\* body that does not parse it raises the parse error; request returns no value
\* on another status or on a transport failure.
C6_ReturnsParsedBodyOn2xx ==
  /\ (RequestEndedOn2xx /\ json(net.raw).ok) =>
       (pc = "succeeded" /\ result = Return(json(net.raw).data) /\ consoleErrors = {})
  /\ (RequestEndedOn2xx /\ ~json(net.raw).ok) =>
       (pc = "failed" /\ result.tag = "throw" /\ result.err.name = "SyntaxError")
  /\ ReturnsOnlyOn2xx

C6_Witness ==
  /\ RequestEndedOn2xx
  /\ net.status = 200 /\ net.raw = "{\"imported\":42}"
  /\ result.tag = "return" /\ result.data.imported = 42

\* A step that starts a request: getAuthHeaders() is called at line 27.
RequestStartStep == Quiet /\ op' = "request" /\ pc' = "fetch"

\* C7: the headers getAuthHeaders returns are a function of the token alone:
\* the JSON content type always, 'Authorization: Bearer <token>' exactly when a
\* token is present, nothing else; the call changes no credential state.
C7_HeadersFromCredential ==
  [][RequestStartStep =>
       /\ DOMAIN sentHeaders' =
            (IF token = NULL THEN {"Content-Type"} ELSE {"Content-Type", "Authorization"})
       /\ sentHeaders'["Content-Type"] = "application/json"
       /\ token # NULL => sentHeaders'["Authorization"] = "Bearer " \o token
       /\ token' = token
       /\ localStorage' = localStorage]_vars

C7_Witness ==
  /\ op = "request" /\ pc = "fetch"
  /\ token = NULL
  /\ DOMAIN sentHeaders = {"Content-Type"}

\* A step of a request or an upload call.
CallStep ==
  /\ <<op, pc, options, attempt, lastError, timers, aborted, inflight, controller, net,
       sentHeaders, events, result, consoleErrors>>' #
     <<op, pc, options, attempt, lastError, timers, aborted, inflight, controller, net,
       sentHeaders, events, result, consoleErrors>>
  /\ pc' # "idle"

\* C8: no step of request or uploadTestCases changes the credential (this.token
\* or the stored token), whatever its outcome; only logout clears it.
C8_OnlyLogoutClearsCredential ==
  [][/\ CallStep => (token' = token /\ localStorage' = localStorage)
     /\ (token # NULL /\ token' = NULL) => logout
     /\ (localStorage.token # NULL /\ localStorage'.token = NULL) => logout]_vars

C8_Witness ==
  /\ op = "request" /\ pc = "failed"
  /\ result.err.code = "UNAUTHORIZED"
  /\ token = "tokA" /\ localStorage.token = "tokA"

\* C9: an upload called without options arms a 300000 ms timer, issues one
\* transport call, never retries, delays or notifies, and raises the failure of
\* its single attempt.
C9_DefaultsWhenOptionsOmitted ==
  (op = "upload" /\ options = EmptyOptions) =>
    /\ attempt = 0
    /\ pc # "delay"
    /\ ProgressEvents = <<>> /\ DelayEvents = <<>>
    /\ \A t \in timers : t.ms = 300000
    /\ pc # "loop" =>
         events = << [ev |-> "arm", attempt |-> 0, total |-> 0, ms |-> 300000],
                     [ev |-> "fetch", attempt |-> 0, total |-> 0, ms |-> 0] >>
    /\ pc = "fetch" /\ 0 \notin aborted => timers = {[id |-> 0, ms |-> 300000]}
    /\ pc = "failed" => (result = Throw(lastError) /\ lastError # NoError)

C9_Witness ==
  /\ op = "upload" /\ options = EmptyOptions
  /\ pc = "failed"
  /\ Len(FetchEvents) = 1
  /\ result.err.name = "TypeError"

\* C10: an upload has at most one timeout timer pending and one transport call
\* holding a cancellation signal, the timer is the current attempt's, and none
\* is pending between attempts (notification, delay) or after the call ended.
C10_TimerReleasedOnEveryExit ==
  /\ Cardinality(timers) <= 1
  /\ Cardinality(inflight) <= 1
  /\ \A t \in timers : op = "upload" /\ pc = "fetch" /\ t.id = attempt
  /\ pc \in {"loop", "delay", "succeeded", "failed"} => (timers = {} /\ inflight = {})

C10_Witness ==
  /\ op = "upload" /\ pc = "delay"
  /\ attempt = 2
  /\ 0 \in aborted /\ 1 \notin aborted
  /\ timers = {}

\* A step of an upload that issues a transport call.
UploadFetchIssued == op = "upload" /\ pc \in {"loop", "delay"} /\ pc' = "fetch"

\* The position of the first event of kind ev for attempt k, 0 when there is none.
EventAt(ev, k) ==
  IF \E i \in 1..Len(events) : events[i].ev = ev /\ events[i].attempt = k
    THEN CHOOSE i \in 1..Len(events) :
           /\ events[i].ev = ev /\ events[i].attempt = k
           /\ \A j \in 1..(i - 1) : ~(events[j].ev = ev /\ events[j].attempt = k)
    ELSE 0

\* C11: the attempts of an upload are strictly sequential: at most one
\* transport call is in flight, the calls are issued in increasing attempt
\* order, and a call is issued only when no earlier call is unsettled and no
\* earlier timer is pending.
C11_AttemptsSequential ==
  /\ [](op = "upload" =>
          /\ Cardinality(inflight) <= 1
          /\ \A i, j \in 1..Len(FetchEvents) :
               i < j => FetchEvents[i].attempt < FetchEvents[j].attempt)
  /\ [][UploadFetchIssued =>
          /\ inflight = {} /\ timers = {}
          /\ inflight' = {attempt}
          /\ timers' = {[id |-> attempt, ms |-> timeout]}]_vars

C11_Witness ==
  /\ op = "upload" /\ pc = "fetch"
  /\ attempt = 1
  /\ inflight = {1}
  /\ Len(FetchEvents) = 2

\* C12: every retry k >= 1 of an upload notifies onProgress (when given) with
\* attempt k and total maxRetries, then waits the 2000 ms delay, then arms the
\* timer and issues the transport call, in this order; the delay is taken on
\* every retry.
C12_NotifyDelayThenCall ==
  op = "upload" =>
    \A k \in 1..attempt :
      (k < attempt \/ pc # "loop") =>
        /\ onProgress = "cb" =>
             /\ EventAt("progress", k) > 0
             /\ events[EventAt("progress", k)].total = retries
             /\ EventAt("progress", k) < EventAt("delay", k)
        /\ EventAt("delay", k) > 0
        /\ events[EventAt("delay", k)].ms = 2000
        /\ (k < attempt \/ pc # "delay") =>
             /\ EventAt("delay", k) < EventAt("arm", k)
             /\ EventAt("arm", k) < EventAt("fetch", k)

\* C13: an attempt is reported as a timeout only if its own timer fired; a
\* transport call that rejects with an AbortError while its timer has not fired
\* is propagated as it is.
C13_TimeoutOnlyWhenTimerFired ==
  op = "upload" =>
    /\ lastError.message = TimeoutMessage(timeout) => lastError.at \in aborted
    /\ ( /\ pc \in {"loop", "delay", "failed"}
         /\ FetchEvents # <<>>
         /\ lastError.at = LastFetchAttempt
         /\ LastFetchAttempt \notin aborted
         /\ net.kind = "reject" /\ net.errName = "AbortError" )
       => lastError.name = "AbortError"

\* C14: a timeout is attempt-scoped: the timer aborts the controller of the
\* attempt in flight and nothing else; the attempt then fails with the timeout
\* error and the upload retries while attempt < maxRetries and ends in Failed
\* with that error otherwise; every transport call is issued with a controller
\* that has not been aborted and with its own timer.
C14_TimeoutIsAttemptScoped ==
  [][/\ (aborted' # aborted /\ op' = op /\ op = "upload" /\ pc = "fetch") =>
          /\ aborted' = aborted \cup {controller}
          /\ pc' = pc /\ attempt' = attempt /\ result' = result
     /\ (op = "upload" /\ pc = "fetch" /\ controller \in aborted /\ pc' # "fetch") =>
          LET e == [name |-> "Error", message |-> TimeoutMessage(timeout), code |-> "",
                    status |-> 0, at |-> attempt]
          IN  /\ lastError' = e
              /\ inflight' = {}
              /\ IF attempt < retries
                   THEN pc' = "loop" /\ attempt' = attempt + 1 /\ result' = NoResult
                   ELSE pc' = "failed" /\ result' = Throw(e)
     /\ UploadFetchIssued =>
          /\ controller' \notin aborted'
          /\ timers' = {[id |-> attempt, ms |-> timeout]}]_vars

C14_Witness ==
  /\ op = "upload" /\ pc = "fetch"
  /\ attempt = 1
  /\ 0 \in aborted /\ controller = 1 /\ 1 \notin aborted
  /\ lastError.message = TimeoutMessage(timeout)
  /\ Cardinality(timers) = 1

\* C15: an upload attempt that fails is retried when attempt < maxRetries and
\* ends the call in Failed when attempt = maxRetries, whatever the failure; a
\* 401 response is an ordinary failure and never the Unauthorized error.
C15_RetryIgnoresFailureKind ==
  /\ [](op = "upload" =>
          /\ lastError.code # "UNAUTHORIZED" /\ lastError.status # 401
          /\ result.err.code # "UNAUTHORIZED" /\ result.err.status # 401)
  /\ [][(op = "upload" /\ pc \in {"fetch", "json"} /\ pc' \notin {"fetch", "json", "succeeded"}) =>
          /\ lastError' # NoError
          /\ IF attempt < retries
               THEN pc' = "loop" /\ attempt' = attempt + 1 /\ result' = NoResult
               ELSE pc' = "failed" /\ attempt' = attempt /\ result' = Throw(lastError')]_vars

C15_Witness ==
  /\ op = "upload" /\ pc = "delay"
  /\ attempt = 1
  /\ net.kind = "response" /\ net.status = 401
  /\ lastError.message = "HTTP 401" /\ lastError.at = 0

\* C16: a call that ends without returning raises an error that console.error
\* has been given; a call that returns has raised nothing; no call ends in
\* any other way.
C16_ErrorsLoggedAndRaised ==
  /\ pc = "failed" =>
       (result.tag = "throw" /\ result.err # NoError /\ result.err \in consoleErrors)
  /\ pc = "succeeded" => (result.tag = "return" /\ consoleErrors = {})
  /\ pc \notin {"succeeded", "failed"} => (result = NoResult /\ consoleErrors = {})
  /\ (op = "upload" /\ pc = "failed") => result.err = lastError

C16_Witness ==
  /\ op = "upload" /\ pc = "failed"
  /\ attempt = 2
  /\ result.err.name = "SyntaxError"
  /\ consoleErrors = {result.err}

\* A step that dispatches a transport call.
DispatchStep == RequestStartStep \/ UploadFetchIssued

\* C17: every dispatched call carries the token the Credential Store holds at
\* dispatch time: after the stored token has changed, the next call carries
\* the new value.
C17_DispatchReadsStore ==
  [][DispatchStep =>
       IF localStorage.token # NULL
         THEN /\ "Authorization" \in DOMAIN sentHeaders'
              /\ sentHeaders'["Authorization"] = "Bearer " \o localStorage.token
         ELSE \A t \in Tokens :
                ~("Authorization" \in DOMAIN sentHeaders'
                    /\ sentHeaders'["Authorization"] = "Bearer " \o t)]_vars

\* C18: every transport call carries an Authorization header exactly when a
\* credential is present, and then 'Bearer <token>'; an upload carries no JSON
\* content-type header.
C18_AuthorizationIffCredential ==
  [][DispatchStep =>
       /\ "Authorization" \in DOMAIN sentHeaders' <=> token # NULL
       /\ token # NULL => sentHeaders'["Authorization"] = "Bearer " \o token
       /\ UploadFetchIssued => "Content-Type" \notin DOMAIN sentHeaders']_vars

\* C19: every upload eventually reaches Succeeded or Failed, whatever the
\* transport does.
C19_UploadTerminates ==
  (op = "upload" /\ pc = "loop" /\ attempt = 0)
    ~> (op = "upload" /\ pc \in {"succeeded", "failed"})

\* C20: every attempt of an upload issues exactly one transport call, an upload
\* that ends in Failed has made maxRetries + 1 of them, and an error raised by
\* onProgress is neither an attempt's failure nor what the call raises.
C20_EveryAttemptIssuesOneCall ==
  op = "upload" =>
    /\ pc \in {"fetch", "json", "succeeded", "failed"} => Len(FetchEvents) = attempt + 1
    /\ pc = "failed" => Len(FetchEvents) = retries + 1
    /\ lastError.message # "onProgress failed"
    /\ result.err.message # "onProgress failed"
====
